---- MODULE Spec2Model ----
(***************************************************************************)
(* Model of the user service of python-vscode-settings: the timestamp      *)
(* codec UnixTimestampDateTime (SQLAlchemy and SQLModel variants) and the  *)
(* handlers that write created_at / updated_at through it.                 *)
(*                                                                         *)
(* Python values are modelled by what the interpreter computes:            *)
(*   - int   : sign and magnitude, the magnitude a sequence of bits,       *)
(*             least significant first (Python ints are unbounded);        *)
(*   - float : IEEE-754 binary64, sign, mantissa bits and exponent,        *)
(*             every operation rounded to nearest, ties to even;           *)
(*   - str   : a sequence of one-character strings;                        *)
(*   - datetime : days since 1970-01-01, second of the day, microsecond    *)
(*             and tzinfo (None, or a UTC offset in minutes).              *)
(***************************************************************************)
EXTENDS Integers, Sequences, FiniteSets, TLC

(***************************************************************************)
(* Unbounded naturals: bit sequences, least significant bit first, no      *)
(* leading (most significant) zero; <<>> is 0.                             *)
(***************************************************************************)
RECURSIVE NatBits(_)
NatBits(n) == IF n = 0 THEN <<>> ELSE <<n % 2>> \o NatBits(n \div 2)

RECURSIVE BitsNat(_)
BitsNat(b) == IF b = <<>> THEN 0 ELSE b[1] + 2 * BitsNat(Tail(b))

Norm(b) ==
    LET ones == {i \in 1..Len(b) : b[i] = 1}
    IN  IF ones = {} THEN <<>>
        ELSE SubSeq(b, 1, CHOOSE i \in ones : \A j \in ones : j <= i)

Zeros(n) == [i \in 1..n |-> 0]

Bit(b, i) == IF i <= Len(b) THEN b[i] ELSE 0

\* Carries are propagated over limbs of LimbBits bits, so that the depth of a
\* computation does not grow with every bit.
LimbBits == 5 * 2

LimbBase == 32 * 32

RECURSIVE Pow2(_)
Pow2(n) == IF n = 0 THEN 1 ELSE 2 * Pow2(n - 1)

ToLimbs(b) ==
    [j \in 1..((Len(b) + LimbBits - 1) \div LimbBits) |->
        BitsNat([t \in 1..LimbBits |-> Bit(b, LimbBits * (j - 1) + t)])]

FromLimbs(l) ==
    Norm([i \in 1..(LimbBits * Len(l)) |->
            (l[((i - 1) \div LimbBits) + 1] \div Pow2((i - 1) % LimbBits)) % 2])

RECURSIVE MulLimbs(_, _, _)
MulLimbs(l, k, c) ==
    IF l = <<>> THEN (IF c = 0 THEN <<>> ELSE <<c % LimbBase>> \o MulLimbs(<<>>, k, c \div LimbBase))
    ELSE LET v == l[1] * k + c
         IN  <<v % LimbBase>> \o MulLimbs(Tail(l), k, v \div LimbBase)

\* b * k + c, for small k and c (k, c <= 10^6).
MulSmallC(b, k, c) == FromLimbs(MulLimbs(ToLimbs(b), k, c))

\* b + c, for a small c.
AddSmall(b, c) == MulSmallC(b, 1, c)

RECURSIVE DivLimbs(_, _)
DivLimbs(l, d) ==
    IF l = <<>> THEN [q |-> <<>>, r |-> 0]
    ELSE LET hi == DivLimbs(Tail(l), d)
             v  == hi.r * LimbBase + l[1]
         IN  [q |-> <<v \div d>> \o hi.q, r |-> v % d]

\* Quotient and remainder of b by a small d > 0 (d <= 10^6).
DivRem(b, d) ==
    LET qr == DivLimbs(ToLimbs(b), d)
    IN  [q |-> FromLimbs(qr.q), r |-> qr.r]

\* a < b on normalised bit sequences.
BitsLess(a, b) ==
    IF Len(a) # Len(b) THEN Len(a) < Len(b)
    ELSE LET diff == {i \in 1..Len(a) : a[i] # b[i]}
         IN  diff # {} /\ LET top == CHOOSE i \in diff : \A j \in diff : j <= i
                          IN  a[top] < b[top]

(***************************************************************************)
(* Python int: [neg, mag].  Zero is never negative.                        *)
(***************************************************************************)
PyInt(neg, mag) == [neg |-> neg /\ mag # <<>>, mag |-> mag]

IntOf(n) == IF n < 0 THEN PyInt(TRUE, NatBits(-n)) ELSE PyInt(FALSE, NatBits(n))

\* a * k + c for a Python int a, small k > 0 and small c >= 0 with the sign of a
\* applied to the whole (used only to build literals: sign * (|a| * k + c)).
IntScale(a, k, c) == PyInt(a.neg, MulSmallC(a.mag, k, c))

(***************************************************************************)
(* binary64.  [neg, m, e] is (-1)^neg * m * 2^e with m a normalised bit    *)
(* sequence of at most MantissaBits bits.  The values the codec computes   *)
(* are far from the subnormal and overflow ranges.                         *)
(***************************************************************************)
MantissaBits == 53

\* Shift applied to a dividend so that the quotient by a divisor below 2^20
\* has more than MantissaBits + 1 bits.
DivShift == MantissaBits + 23

\* Round the exact value (b + fraction) * 2^e to nearest, ties to even;
\* sticky says the dropped fraction below b is not zero.
RoundBits(neg, b, sticky, e) ==
    IF Len(b) <= MantissaBits THEN [neg |-> neg /\ b # <<>>, m |-> b, e |-> e]
    ELSE LET drop  == Len(b) - MantissaBits
             keep  == SubSeq(b, drop + 1, Len(b))
             guard == b[drop]
             st    == sticky \/ \E i \in 1..(drop - 1) : b[i] = 1
             up    == guard = 1 /\ (st \/ keep[1] = 1)
             r     == IF up THEN AddSmall(keep, 1) ELSE keep
         IN  IF Len(r) > MantissaBits
             THEN [neg |-> neg, m |-> Tail(r), e |-> e + drop + 1]
             ELSE [neg |-> neg, m |-> r, e |-> e + drop]

\* int / int (true division), correctly rounded: a / d for a small d > 0.
TrueDiv(a, d) ==
    IF a.mag = <<>> THEN [neg |-> FALSE, m |-> <<>>, e |-> 0]
    ELSE LET qr == DivRem(Zeros(DivShift) \o a.mag, d)
         IN  RoundBits(a.neg, qr.q, qr.r # 0, -DivShift)

\* float * k for a small integer k > 0.
FloatMul(f, k) == RoundBits(f.neg, MulSmallC(f.m, k, 0), FALSE, f.e)

\* The integer part of |f| (truncation toward zero), as bits.
TruncBits(f) ==
    IF f.e >= 0 THEN (IF f.m = <<>> THEN <<>> ELSE Zeros(f.e) \o f.m)
    ELSE IF -f.e >= Len(f.m) THEN <<>>
    ELSE SubSeq(f.m, 1 - f.e, Len(f.m))

\* int(f): truncation toward zero.
FloatToInt(f) == PyInt(f.neg, TruncBits(f))

\* modf(f): the fractional part, exact, with the sign of f.
FracPart(f) ==
    IF f.e >= 0 THEN [neg |-> FALSE, m |-> <<>>, e |-> 0]
    ELSE LET lo == Norm(SubSeq(f.m, 1, IF -f.e < Len(f.m) THEN -f.e ELSE Len(f.m)))
         IN  [neg |-> f.neg /\ lo # <<>>, m |-> lo, e |-> f.e]

\* |f| rounded to an integer, ties to even (pytime_round, ROUND_HALF_EVEN).
RoundHalfEven(f) ==
    IF f.e >= 0 THEN TruncBits(f)
    ELSE LET k     == -f.e
             ip    == TruncBits(f)
             guard == IF k <= Len(f.m) THEN f.m[k] ELSE 0
             st    == \E i \in 1..(k - 1) : i <= Len(f.m) /\ f.m[i] = 1
             odd   == ip # <<>> /\ ip[1] = 1
         IN  IF guard = 1 /\ (st \/ odd) THEN AddSmall(ip, 1) ELSE ip

(***************************************************************************)
(* Python values.  k is the type; a raised exception is a value too, so    *)
(* that what a caller observes is part of the state.                       *)
(***************************************************************************)
None == [k |-> "none"]

IntVal(i) == [k |-> "int", neg |-> i.neg, mag |-> i.mag]

StrVal(s) == [k |-> "str", s |-> s]

\* datetime: the wall-clock fields as days since 1970-01-01 and second of the
\* day, the microsecond, and tzinfo: aware with off minutes east of UTC, or
\* naive (aware = FALSE, off = 0).
DateTime(days, sod, us, aware, off) ==
    [k |-> "datetime", days |-> days, sod |-> sod, us |-> us,
     aware |-> aware, off |-> off]

\* A value of a type the codec does not know (bytes, float, ...).
Other(tag) == [k |-> "other", tag |-> tag]

Raise(exc) == [k |-> "raise", exc |-> exc]

IsNone(v) == v.k = "none"
IsInt(v) == v.k = "int"
IsStr(v) == v.k = "str"
IsDateTime(v) == v.k = "datetime"
IsRaise(v) == v.k = "raise"

SecondsPerDay == 86400

\* The aware datetime of the same instant in UTC.
ToUTC(dt) ==
    LET s == dt.sod - dt.off * 60
    IN  DateTime(dt.days + (s \div SecondsPerDay), s % SecondsPerDay, dt.us, TRUE, 0)

\* datetime.__eq__: a naive and an aware datetime are never equal, two aware
\* ones are equal when they are the same instant.
DtEq(a, b) ==
    /\ IsDateTime(a) /\ IsDateTime(b)
    /\ a.aware = b.aware
    /\ IF a.aware THEN ToUTC(a) = ToUTC(b) ELSE a = b

\* (dt - _EPOCH) in microseconds, a Python int, for an aware dt:
\* (days * 86400 + seconds) * 10**6 + microseconds.
EpochMicros(dt) ==
    LET u == ToUTC(dt)
    IN  IF u.days >= 0
        THEN PyInt(FALSE, MulSmallC(MulSmallC(NatBits(u.days), SecondsPerDay, u.sod),
                                    1000000, u.us))
        ELSE PyInt(TRUE, MulSmallC(MulSmallC(NatBits(-u.days - 1), SecondsPerDay,
                                             SecondsPerDay - 1 - u.sod),
                                   1000000, 1000000 - u.us))

\* datetime.timestamp() of an aware datetime: (self - _EPOCH).total_seconds(),
\* the microseconds / 10**6 as a float.
Timestamp(dt) == TrueDiv(EpochMicros(dt), 1000000)

\* The days of date.min (0001-01-01) and date.max (9999-12-31).
MinDays == -719162

MaxDays == 2932896

\* datetime.fromtimestamp(f, tz=timezone.utc): the seconds are split by modf,
\* the fraction is scaled to microseconds and rounded half to even.
FromTimestamp(f) ==
    LET ip   == TruncBits(f)
        usr  == BitsNat(RoundHalfEven(FloatMul(FracPart(f), 1000000)))
        \* floatpart >= 1e6: carry into the seconds; floatpart < 0: borrow.
        secs == IF ~f.neg THEN (IF usr >= 1000000 THEN AddSmall(ip, 1) ELSE ip)
                ELSE (IF usr = 0 THEN ip ELSE AddSmall(ip, 1))
        us   == IF usr >= 1000000 THEN 0
                ELSE IF f.neg /\ usr > 0 THEN 1000000 - usr
                ELSE usr
        qr   == DivRem(secs, SecondsPerDay)
    IN  IF Len(qr.q) > 24 THEN Raise("ValueError")
        ELSE LET q    == BitsNat(qr.q)
                 days == IF ~f.neg \/ secs = <<>> THEN q
                         ELSE IF qr.r = 0 THEN -q ELSE -(q + 1)
                 sod  == IF ~f.neg \/ qr.r = 0 THEN qr.r ELSE SecondsPerDay - qr.r
             IN  IF days < MinDays \/ days > MaxDays THEN Raise("ValueError")
                 ELSE DateTime(days, sod, us, TRUE, 0)

(***************************************************************************)
(* The proleptic Gregorian calendar of datetime.date (ymd2ord / ord2ymd),  *)
(* in days since 1970-01-01.                                               *)
(***************************************************************************)
IsLeap(y) == y % 4 = 0 /\ (y % 100 # 0 \/ y % 400 = 0)

DaysInMonth(y, m) ==
    IF m = 2 THEN (IF IsLeap(y) THEN 29 ELSE 28)
    ELSE IF m \in {4, 6, 9, 11} THEN 30 ELSE 31

DaysFromCivil(y, m, d) ==
    LET yy  == IF m <= 2 THEN y - 1 ELSE y
        era == yy \div 400
        yoe == yy - era * 400
        mp  == IF m > 2 THEN m - 3 ELSE m + 9
        doy == ((153 * mp + 2) \div 5) + d - 1
        doe == yoe * 365 + (yoe \div 4) - (yoe \div 100) + doy
    IN  era * 146097 + doe - 719468

CivilFromDays(days) ==
    LET z   == days + 719468
        era == z \div 146097
        doe == z - era * 146097
        yoe == (doe - (doe \div 1460) + (doe \div 36524) - (doe \div 146096)) \div 365
        doy == doe - (365 * yoe + (yoe \div 4) - (yoe \div 100))
        mp  == (5 * doy + 2) \div 153
        d   == doy - ((153 * mp + 2) \div 5) + 1
        m   == IF mp < 10 THEN mp + 3 ELSE mp - 9
    IN  [y |-> yoe + era * 400 + (IF m <= 2 THEN 1 ELSE 0), m |-> m, d |-> d]

(***************************************************************************)
(* str: sequences of one-character strings.                                *)
(***************************************************************************)
Digits == <<"0", "1", "2", "3", "4", "5", "6", "7", "8", "9">>

IsDigit(c) == \E i \in 1..10 : Digits[i] = c

DigitVal(c) == (CHOOSE i \in 1..10 : Digits[i] = c) - 1

AllDigits(s) == \A i \in 1..Len(s) : IsDigit(s[i])

RECURSIVE NumVal(_)
NumVal(s) == IF s = <<>> THEN 0
             ELSE NumVal(SubSeq(s, 1, Len(s) - 1)) * 10 + DigitVal(s[Len(s)])

RECURSIVE Pow10(_)
Pow10(n) == IF n = 0 THEN 1 ELSE 10 * Pow10(n - 1)

\* n as w decimal digits, zero padded.
Pad(n, w) == [i \in 1..w |-> Digits[((n \div Pow10(w - i)) % 10) + 1]]

\* c in s
Contains(s, c) == \E i \in 1..Len(s) : s[i] = c

\* s.replace(c, r) for a character c and a string r.
RECURSIVE Replace(_, _, _)
Replace(s, c, r) ==
    IF s = <<>> THEN <<>>
    ELSE (IF s[1] = c THEN r ELSE <<s[1]>>) \o Replace(Tail(s), c, r)

\* ±HH:MM of a UTC offset in minutes.
OffsetText(off) ==
    LET a == IF off < 0 THEN -off ELSE off
    IN  <<IF off < 0 THEN "-" ELSE "+">> \o Pad(a \div 60, 2) \o <<":">> \o Pad(a % 60, 2)

\* datetime.isoformat(sep): YYYY-MM-DD sep HH:MM:SS[.ffffff][+HH:MM]; the
\* fraction is written only when microsecond is not 0.
IsoFormat(dt, sep) ==
    LET c == CivilFromDays(dt.days)
    IN  Pad(c.y, 4) \o <<"-">> \o Pad(c.m, 2) \o <<"-">> \o Pad(c.d, 2) \o <<sep>>
        \o Pad(dt.sod \div 3600, 2) \o <<":">> \o Pad((dt.sod \div 60) % 60, 2)
        \o <<":">> \o Pad(dt.sod % 60, 2)
        \o (IF dt.us = 0 THEN <<>> ELSE <<".">> \o Pad(dt.us, 6))
        \o (IF dt.aware THEN OffsetText(dt.off) ELSE <<>>)

(***************************************************************************)
(* datetime.fromisoformat.  The grammar is                                 *)
(*   YYYY-MM-DD[*HH[:MM[:SS[.f...]]][Z|+HH:MM|-HH:MM]]                     *)
(* with * any one character.  py311 is the interpreter: from Python 3.11   *)
(* a trailing Z and any number of fraction digits are accepted; before,    *)
(* Z is rejected and a fraction has 3 or 6 digits.                         *)
(***************************************************************************)
ParseDate(s) ==
    IF /\ Len(s) = 10 /\ s[5] = "-" /\ s[8] = "-"
       /\ AllDigits(SubSeq(s, 1, 4)) /\ AllDigits(SubSeq(s, 6, 7))
       /\ AllDigits(SubSeq(s, 9, 10))
    THEN LET y == NumVal(SubSeq(s, 1, 4))
             m == NumVal(SubSeq(s, 6, 7))
             d == NumVal(SubSeq(s, 9, 10))
         IN  IF y >= 1 /\ m \in 1..12 /\ d >= 1 /\ d <= DaysInMonth(y, m)
             THEN [ok |-> TRUE, days |-> DaysFromCivil(y, m, d)]
             ELSE [ok |-> FALSE, days |-> 0]
    ELSE [ok |-> FALSE, days |-> 0]

\* The fraction digits as microseconds: at most six digits count.
FractionMicros(f) ==
    IF Len(f) >= 6 THEN NumVal(SubSeq(f, 1, 6))
    ELSE NumVal(f) * Pow10(6 - Len(f))

ParseTime(s, py311) ==
    LET bad == [ok |-> FALSE, sod |-> 0, us |-> 0]
        two(i) == SubSeq(s, i, i + 1)
        hOk == Len(s) >= 2 /\ AllDigits(two(1))
        mOk == Len(s) >= 5 /\ s[3] = ":" /\ AllDigits(two(4))
        sOk == Len(s) >= 8 /\ s[6] = ":" /\ AllDigits(two(7))
        h   == NumVal(two(1))
        mi  == IF Len(s) >= 5 THEN NumVal(two(4)) ELSE 0
        sec == IF Len(s) >= 8 THEN NumVal(two(7)) ELSE 0
        fr  == IF Len(s) > 9 THEN SubSeq(s, 10, Len(s)) ELSE <<>>
        shape ==
            \/ Len(s) = 2 /\ hOk
            \/ Len(s) = 5 /\ hOk /\ mOk
            \/ Len(s) = 8 /\ hOk /\ mOk /\ sOk
            \/ /\ Len(s) > 9 /\ hOk /\ mOk /\ sOk /\ s[9] = "." /\ AllDigits(fr)
               /\ (py311 \/ Len(fr) \in {3, 6})
    IN  IF shape /\ h <= 23 /\ mi <= 59 /\ sec <= 59
        THEN [ok |-> TRUE, sod |-> h * 3600 + mi * 60 + sec,
              us |-> IF fr = <<>> THEN 0 ELSE FractionMicros(fr)]
        ELSE bad

ParseOffset(s) ==
    IF /\ Len(s) = 6 /\ s[1] \in {"+", "-"} /\ s[4] = ":"
       /\ AllDigits(SubSeq(s, 2, 3)) /\ AllDigits(SubSeq(s, 5, 6))
       /\ NumVal(SubSeq(s, 2, 3)) <= 23 /\ NumVal(SubSeq(s, 5, 6)) <= 59
    THEN LET a == NumVal(SubSeq(s, 2, 3)) * 60 + NumVal(SubSeq(s, 5, 6))
         IN  [ok |-> TRUE, off |-> IF s[1] = "-" THEN -a ELSE a]
    ELSE [ok |-> FALSE, off |-> 0]

FromIsoformat(s, py311) ==
    LET date == ParseDate(SubSeq(s, 1, IF Len(s) < 10 THEN Len(s) ELSE 10))
    IN  IF ~date.ok THEN Raise("ValueError")
        ELSE IF Len(s) = 10 THEN DateTime(date.days, 0, 0, FALSE, 0)
        ELSE IF Len(s) = 11 THEN Raise("ValueError")
        ELSE
          LET t     == SubSeq(s, 12, Len(s))
              signs == {i \in 1..Len(t) : t[i] \in {"+", "-"}}
              zEnd  == py311 /\ signs = {} /\ t[Len(t)] = "Z"
              cut   == IF signs # {} THEN CHOOSE i \in signs : \A j \in signs : i <= j
                       ELSE IF zEnd THEN Len(t)
                       ELSE Len(t) + 1
              time  == ParseTime(SubSeq(t, 1, cut - 1), py311)
              tz    == IF signs # {} THEN ParseOffset(SubSeq(t, cut, Len(t)))
                       ELSE [ok |-> TRUE, off |-> 0]
          IN  IF time.ok /\ tz.ok
              THEN DateTime(date.days, time.sod, time.us, signs # {} \/ zEnd, tz.off)
              ELSE Raise("ValueError")

(***************************************************************************)
(* UnixTimestampDateTime, the SQLAlchemy model's codec.                    *)
(***************************************************************************)
load_dialect_impl(dialect) == IF dialect = "sqlite" THEN "Integer" ELSE "DateTime"

\* process_bind_param without its None check: None.timestamp() raises.
process_bind_param_NoNoneCheck(value, dialect) ==
    IF dialect = "sqlite"
    THEN (IF IsNone(value) THEN Raise("AttributeError")
          ELSE IntVal(FloatToInt(FloatMul(Timestamp(value), 1000))))
    ELSE value

\* value is None or an aware datetime (the model's defaults are
\* datetime.now(timezone.utc)).
process_bind_param(value, dialect) ==
    IF IsNone(value) THEN None
    ELSE IF dialect = "sqlite"
         THEN IntVal(FloatToInt(FloatMul(Timestamp(value), 1000)))
    ELSE value

\* process_result_value normalising a datetime it is handed to aware UTC
\* instead of passing it through.
process_result_value_Normalising(value, py311) ==
    IF IsNone(value) THEN None
    ELSE IF IsDateTime(value)
         THEN (IF value.aware THEN ToUTC(value)
               ELSE DateTime(value.days, value.sod, value.us, TRUE, 0))
    ELSE IF IsInt(value) THEN FromTimestamp(TrueDiv(value, 1000))
    ELSE IF IsStr(value)
         THEN IF ~Contains(value.s, "T")
              THEN FromIsoformat(Replace(value.s, " ", <<"T">>), py311)
              ELSE FromIsoformat(Replace(value.s, "Z", <<"+", "0", "0", ":", "0", "0">>), py311)
    ELSE value

process_result_value(value, py311) ==
    IF IsNone(value) THEN None
    ELSE IF IsDateTime(value) THEN value
    ELSE IF IsInt(value) THEN FromTimestamp(TrueDiv(value, 1000))
    ELSE IF IsStr(value)
         THEN IF ~Contains(value.s, "T")
              THEN FromIsoformat(Replace(value.s, " ", <<"T">>), py311)
              ELSE FromIsoformat(Replace(value.s, "Z", <<"+", "0", "0", ":", "0", "0">>), py311)
    ELSE value

(***************************************************************************)
(* UnixTimestampDateTime, the SQLModel model's codec (impl = Integer).     *)
(***************************************************************************)
sqlmodel_load_dialect_impl(dialect) == "Integer"

sqlmodel_process_bind_param(value, dialect) == value

sqlmodel_process_result_value(value, py311) ==
    IF IsNone(value) THEN None
    ELSE IF IsDateTime(value) THEN value
    ELSE IF IsInt(value) THEN FromTimestamp(TrueDiv(value, 1000))
    ELSE IF IsStr(value)
         THEN IF ~Contains(value.s, "T")
              THEN FromIsoformat(Replace(value.s, " ", <<"T">>), py311)
              ELSE FromIsoformat(Replace(value.s, "Z", <<"+", "0", "0", ":", "0", "0">>), py311)
    ELSE value

\* What the column holds once the driver has taken the bound parameter: an
\* integer or a native temporal value as it is; a datetime handed to SQLite
\* (the SQLModel codec passes it through to an Integer column) is adapted by
\* the sqlite3 module to its isoformat(" ") text.
DriverStore(bound, dialect) ==
    IF dialect = "sqlite" /\ IsDateTime(bound) THEN StrVal(IsoFormat(bound, " "))
    ELSE bound

\* func.current_timestamp(), the SQLModel columns' server_default and onupdate:
\* SQLite's CURRENT_TIMESTAMP is the text YYYY-MM-DD HH:MM:SS in UTC, any
\* other backend's a native temporal value.
current_timestamp(now, dialect) ==
    IF dialect = "sqlite"
    THEN StrVal(IsoFormat(DateTime(now.days, now.sod, 0, FALSE, 0), " "))
    ELSE now

\* The epoch-millisecond integer of an instant (Prisma's convention), exact.
EpochMillis(dt) ==
    LET us == EpochMicros(dt)
        qr == DivRem(us.mag, 1000)
    IN  PyInt(us.neg, IF us.neg /\ qr.r # 0 THEN AddSmall(qr.q, 1) ELSE qr.q)

(***************************************************************************)
(* The codec at work on one column value: a writer leaves a raw value in   *)
(* the column, a reader decodes it, and may decode the decoded value again.*)
(***************************************************************************)
Dialects == {"sqlite", "postgresql"}

Orms == {"sqlalchemy", "sqlmodel"}

Unset == [k |-> "unset"]

\* The instants written: whole seconds of a few days, plus milliseconds.
BaseInstants ==
    { <<0, 0>>,            \* 1970-01-01T00:00:00
      <<0, 1>>,            \* 1970-01-01T00:00:01
      <<-1, 86399>>,       \* 1969-12-31T23:59:59
      <<12427, 49024>>,    \* 2004-01-10T13:37:04
      <<19737, 37800>>,    \* 2024-01-15T10:30:00
      <<101806, 54622>> }  \* 2248-09-26T15:10:22

MaxMs == 3

Millis == (0..MaxMs) \cup {123, 207, 999}

Moments ==
    {DateTime(b[1], b[2], ms * 1000, TRUE, 0) : b \in BaseInstants, ms \in Millis}

\* Strings that are neither YYYY-MM-DD HH:MM:SS nor T-separated ISO-8601.
UnrecognisedStrings ==
    { <<"n", "o", "t", "-", "a", "-", "d", "a", "t", "e">>,
      <<>>,
      <<"2", "0", "2", "4", "-", "1", "3", "-", "4", "5", " ", "1", "0", ":", "3", "0", ":", "0", "0">>,
      <<"2", "0", "2", "4", "-", "0", "1", "-", "1", "5", "_", "1", "0", ":", "3", "0", ":", "0", "0">>,
      <<"2", "0", "2", "4", "-", "0", "1", "-", "1", "5">> }

\* Integers no writer of this table produced for a moment above.
ForeignInts ==
    { PyInt(FALSE, Zeros(62) \o <<1>>),
      PyInt(FALSE, MulSmallC(NatBits(253402300), 1000000, 800000)),
      PyInt(TRUE, MulSmallC(NatBits(62135596), 1000000, 800001)) }

IsoStyles == {"T", "TZ", "T+00:00", " Z", " "}

\* The text of an instant in one of the spellings of Variant B.
IsoText(dt, style) ==
    LET n == DateTime(dt.days, dt.sod, dt.us, FALSE, 0)
    IN  CASE style = "T"       -> IsoFormat(n, "T")
          [] style = "TZ"      -> IsoFormat(n, "T") \o <<"Z">>
          [] style = "T+00:00" -> IsoFormat(n, "T") \o OffsetText(0)
          [] style = " Z"      -> IsoFormat(n, " ") \o <<"Z">>
          [] OTHER             -> IsoFormat(n, " ")

VARIABLES
    py311,    \* the interpreter is Python 3.11 or later
    moment,   \* the instant the writer persists (None: a null, or no instant)
    writer,   \* who left the raw value
    dialect,  \* the backend of the writer
    bound,    \* what process_bind_param returned (Unset: the codec was not called)
    raw,      \* the Raw Stored Value
    reader,   \* the codec that decoded
    result,   \* what process_result_value returned
    prev,     \* the result decoded again
    pc,       \* new, stored, loaded, reloaded
    users,    \* the rows of table user, in rowid order
    clock,    \* microseconds elapsed on the wall clock since ClockStart
    last,     \* the last request handled and its response
    pending,  \* the create requests in flight, each with its position
    client,   \* PrismaManager._client: NoClient, or the Prisma object it refers to
    clients,  \* the Prisma objects constructed so far, each with its connection state
    closing,  \* the Prisma objects a close() is awaiting the disconnect of
    got       \* what the last PrismaManager.get() did

codecVars == <<py311, moment, writer, dialect, bound, raw, reader, result, prev, pc>>

crudVars == <<users, clock, last>>

raceVars == <<pending>>

managerVars == <<client, clients, closing, got>>

vars == <<codecVars, crudVars, raceVars, managerVars>>

\* _client: Prisma | None = None
NoClient == 0

NoGet == [outcome |-> "none", client |-> NoClient, connected |-> FALSE]

\* The class as the import leaves it: no client, nothing constructed.
ManagerInit ==
    /\ client = NoClient
    /\ clients = <<>>
    /\ closing = {}
    /\ got = NoGet

NoRequest == [op |-> "none", status |-> 0, detail |-> "", id |-> 0,
              via |-> "none", items |-> <<>>, req |-> <<>>]

\* No user, no request yet.
EmptyTable ==
    /\ users = <<>>
    /\ clock = 0
    /\ last = NoRequest

CodecInit ==
    /\ py311 \in BOOLEAN
    /\ moment \in Moments \cup {None}
    /\ writer = "none"
    /\ dialect = "sqlite"
    /\ bound = Unset
    /\ raw = Unset
    /\ reader = "none"
    /\ result = Unset
    /\ prev = Unset
    /\ pc = "new"
    /\ EmptyTable
    /\ pending = <<>>
    /\ ManagerInit

Stored(w, d, b, r) ==
    /\ writer' = w
    /\ dialect' = d
    /\ bound' = b
    /\ raw' = r
    /\ pc' = "stored"
    /\ UNCHANGED <<py311, reader, result, prev, crudVars, raceVars, managerVars>>

\* A write of the column through the SQLAlchemy model.
SqlAlchemyWrite ==
    /\ pc = "new"
    /\ \E d \in Dialects :
         LET b == process_bind_param(moment, d)
         IN  Stored("sqlalchemy", d, b, DriverStore(b, d))
    /\ UNCHANGED moment

\* A write of the column through the SQLModel model.
SqlModelWrite ==
    /\ pc = "new"
    /\ \E d \in Dialects :
         LET b == sqlmodel_process_bind_param(moment, d)
         IN  Stored("sqlmodel", d, b, DriverStore(b, d))
    /\ UNCHANGED moment

\* An update through the SQLModel model: onupdate = func.current_timestamp().
ServerTimestamp ==
    /\ pc = "new"
    /\ moment # None
    /\ moment.us = 0
    /\ \E d \in Dialects : Stored("current_timestamp", d, Unset, current_timestamp(moment, d))
    /\ UNCHANGED moment

\* A write by Prisma: the epoch-millisecond integer.
PrismaWrite ==
    /\ pc = "new"
    /\ moment # None
    /\ Stored("prisma", "sqlite", Unset, IntVal(EpochMillis(moment)))
    /\ UNCHANGED moment

\* A writer that stores ISO-8601 text.
IsoWrite ==
    /\ pc = "new"
    /\ moment # None
    /\ \E st \in IsoStyles : Stored("iso", "sqlite", Unset, StrVal(IsoText(moment, st)))
    /\ UNCHANGED moment

\* Anything else found in the column.
ForeignWrite ==
    /\ pc = "new"
    /\ moment = None
    /\ \E v \in {StrVal(u) : u \in UnrecognisedStrings}
                \cup {IntVal(i) : i \in ForeignInts} \cup {Other("bytes")} :
         Stored("foreign", "sqlite", Unset, v)
    /\ UNCHANGED moment

\* A read of the column through either model.
Load ==
    /\ pc = "stored"
    /\ \E o \in Orms :
         /\ reader' = o
         /\ result' = IF o = "sqlalchemy" THEN process_result_value(raw, py311)
                      ELSE sqlmodel_process_result_value(raw, py311)
    /\ pc' = "loaded"
    /\ UNCHANGED <<py311, moment, writer, dialect, bound, raw, prev, crudVars, raceVars, managerVars>>

\* The decoded value is handed to the codec again.
Reload ==
    /\ pc = "loaded"
    /\ ~IsRaise(result)
    /\ prev' = result
    /\ result' = IF reader = "sqlalchemy" THEN process_result_value(result, py311)
                 ELSE sqlmodel_process_result_value(result, py311)
    /\ pc' = "reloaded"
    /\ UNCHANGED <<py311, moment, writer, dialect, bound, raw, reader, crudVars, raceVars, managerVars>>

CodecNext ==
    \/ SqlAlchemyWrite
    \/ SqlModelWrite
    \/ ServerTimestamp
    \/ PrismaWrite
    \/ IsoWrite
    \/ ForeignWrite
    \/ Load
    \/ Reload


CodecSpec == CodecInit /\ [][CodecNext]_vars

(***************************************************************************)
(* The SQLAlchemy codec on instants at microsecond precision: what         *)
(* datetime.now(UTC), the default of created_at and updated_at, produces.  *)
(***************************************************************************)
MaxUs == 1

Micros == (0..MaxUs) \cup {500, 999, 1000, 1500, 123456, 999999}

MicroMoments ==
    {DateTime(b[1], b[2], us, TRUE, 0) : b \in BaseInstants, us \in Micros}

MicroInit ==
    /\ py311 \in BOOLEAN
    /\ moment \in MicroMoments
    /\ writer = "none"
    /\ dialect = "sqlite"
    /\ bound = Unset
    /\ raw = Unset
    /\ reader = "none"
    /\ result = Unset
    /\ prev = Unset
    /\ pc = "new"
    /\ EmptyTable
    /\ pending = <<>>
    /\ ManagerInit

MicroNext ==
    \/ SqlAlchemyWrite
    \/ Load

MicroSpec == MicroInit /\ [][MicroNext]_vars

(***************************************************************************)
(* The user table and the SQLAlchemy handlers of routers/users.py.  The    *)
(* application's database is always SQLite (config.database_url).          *)
(***************************************************************************)
Emails == {"a@example.com", "b@example.com"}

Usernames == {"alice", "bob"}

\* full_name is nullable; NullName stands for NULL.
NullName == "NULL"

FullNames == {NullName, "Al"}

\* The largest rowid the model lets the table hand out.
MaxId == 2

\* The wall clock when the service starts: 2024-01-15T10:30:00Z.
ClockStart == <<19737, 37800>>

\* The clock advances in steps of TickUs microseconds, MaxTicks times.
TickUs == 500

MaxTicks == 2

\* datetime.now(timezone.utc) when the clock reads c.
Now(c) == DateTime(ClockStart[1], ClockStart[2], c, TRUE, 0)

AppDialect == "sqlite"

\* What the column type binds for datetime.now(timezone.utc) when the clock
\* reads c.
BoundNow(c) == process_bind_param(Now(c), AppDialect)

Rows == {users[i] : i \in 1..Len(users)}

Ids == {u.id : u \in Rows}

RowOf(tbl, id) == CHOOSE u \in {tbl[i] : i \in 1..Len(tbl)} : u.id = id

\* INTEGER PRIMARY KEY of SQLite: one more than the largest rowid in the table.
NextId == IF users = <<>> THEN 1
          ELSE (CHOOSE i \in Ids : \A j \in Ids : j <= i) + 1

\* The response of a handler of routers/users.py to the request req.
Response(op, status, detail, id, req) ==
    [op |-> op, status |-> status, detail |-> detail, id |-> id,
     via |-> "sqlalchemy", items |-> <<>>, req |-> req]

\* A response of the Prisma router.
PrismaResponse(op, status, detail, id, req) ==
    [Response(op, status, detail, id, req) EXCEPT !.via = "prisma"]

\* The service handles one request at a time: the last response has left.
Idle == last = NoRequest

Init ==
    /\ EmptyTable
    /\ py311 = TRUE     \* the handlers store integers only: no text is parsed
    /\ moment = None
    /\ writer = "none"
    /\ dialect = AppDialect
    /\ bound = Unset
    /\ raw = Unset
    /\ reader = "none"
    /\ result = Unset
    /\ prev = Unset
    /\ pc = "new"
    /\ pending = <<>>
    /\ ManagerInit

\* Time passes.
Tick ==
    /\ clock + TickUs <= MaxTicks * TickUs
    /\ clock' = clock + TickUs
    /\ UNCHANGED <<users, last, codecVars, raceVars, managerVars>>

\* The response has reached the client.
Respond ==
    /\ ~Idle
    /\ last' = NoRequest
    /\ UNCHANGED <<users, clock, codecVars, raceVars, managerVars>>

\* Some stored user has this email / this username.
EmailHeld(email) == \E u \in Rows : u.email = email

UsernameHeld(username) == \E u \in Rows : u.username = username

\* create_user with the username check placed before the email check.
CreateUser_UsernameFirst(email, username, full_name) ==
    LET req == [email |-> email, username |-> username, full_name |-> full_name]
    IN
    IF UsernameHeld(username)
    THEN /\ last' = Response("create", 400, "Username already taken", 0, req)
         /\ UNCHANGED <<users, clock>>
    ELSE IF EmailHeld(email)
    THEN /\ last' = Response("create", 400, "Email already registered", 0, req)
         /\ UNCHANGED <<users, clock>>
    ELSE
      /\ NextId <= MaxId
      /\ \E stamp \in {BoundNow(clock)} :
           users' = Append(users,
              [id |-> NextId, email |-> email, username |-> username,
               full_name |-> full_name,
               hashed_password |-> "hashedpassword123",
               is_active |-> TRUE, is_superuser |-> FALSE,
               created_at |-> stamp, updated_at |-> stamp])
      /\ last' = Response("create", 201, "", NextId, req)
      /\ UNCHANGED clock

\* POST /users/ with this body (the body leaves is_active to its default, True)
CreateUser(email, username, full_name) ==
    LET req == [email |-> email, username |-> username, full_name |-> full_name]
    IN
    IF EmailHeld(email)
    THEN /\ last' = Response("create", 400, "Email already registered", 0, req)
         /\ UNCHANGED <<users, clock>>
    ELSE IF UsernameHeld(username)
    THEN /\ last' = Response("create", 400, "Username already taken", 0, req)
         /\ UNCHANGED <<users, clock>>
    ELSE
      \* The INSERT calls the default of created_at and then the default
      \* of updated_at: two readings of the clock, drift apart.
      /\ NextId <= MaxId
      /\ \E drift \in {0, TickUs} :
           /\ clock + drift <= MaxTicks * TickUs
           /\ clock' = clock + drift
           /\ \E created \in {BoundNow(clock)}, updated \in {BoundNow(clock + drift)} :
              users' = Append(users,
                 [id |-> NextId, email |-> email, username |-> username,
                  full_name |-> full_name,
                  hashed_password |-> "hashedpassword123",
                  is_active |-> TRUE, is_superuser |-> FALSE,
                  created_at |-> created, updated_at |-> updated])
      /\ last' = Response("create", 201, "", NextId, req)

create_user ==
    /\ Idle
    /\ \E email \in Emails, username \in Usernames, full_name \in FullNames :
         CreateUser(email, username, full_name)
    /\ UNCHANGED <<codecVars, raceVars, managerVars>>

\* GET /users/{user_id}
GetUser(user_id) ==
    LET req == [user_id |-> user_id]
    IN
    /\ last' = IF user_id \in Ids THEN Response("get", 200, "", user_id, req)
               ELSE Response("get", 404, "User not found", user_id, req)
    /\ UNCHANGED <<users, clock>>

get_user ==
    /\ Idle
    /\ \E user_id \in 1..MaxId : GetUser(user_id)
    /\ UNCHANGED <<codecVars, raceVars, managerVars>>

UpdateFields == {"email", "username", "full_name", "is_active"}

\* The bodies of PATCH: the fields set (exclude_unset) and their values.
UserUpdates ==
    {[set |-> s, email |-> e, username |-> n, full_name |-> f, is_active |-> a] :
        s \in SUBSET UpdateFields, e \in Emails, n \in Usernames,
        f \in FullNames, a \in BOOLEAN}

\* A field that is not set has its default in the body.
Canonical(upd) ==
    /\ "email" \notin upd.set => upd.email = "a@example.com"
    /\ "username" \notin upd.set => upd.username = "alice"
    /\ "full_name" \notin upd.set => upd.full_name = NullName
    /\ "is_active" \notin upd.set => upd.is_active

\* One body for each update_data.
UpdateBodies == {upd \in UserUpdates : Canonical(upd)}

\* The row with every field of the body assigned, set or not
\* (model_dump without exclude_unset).
Assigned_AllFields(row, upd) ==
    [row EXCEPT !.email = upd.email, !.username = upd.username,
                !.full_name = upd.full_name, !.is_active = upd.is_active]

\* The row with the fields of update_data assigned (setattr).
Assigned(row, upd) ==
    [row EXCEPT !.email     = IF "email" \in upd.set THEN upd.email ELSE @,
                !.username  = IF "username" \in upd.set THEN upd.username ELSE @,
                !.full_name = IF "full_name" \in upd.set THEN upd.full_name ELSE @,
                !.is_active = IF "is_active" \in upd.set THEN upd.is_active ELSE @]

\* The table with a unique index on email alone.
UniqueViolation_EmailOnly(user_id, new) ==
    \E u \in Rows : u.id # user_id /\ u.email = new.email

\* The unique indexes on email and username reject the row for user_id.
UniqueViolation(user_id, new) ==
    \E u \in Rows : u.id # user_id /\ (u.email = new.email \/ u.username = new.username)

\* The table with the row of user_id replaced.
Replaced(user_id, new) ==
    [i \in 1..Len(users) |-> IF users[i].id = user_id THEN new ELSE users[i]]

\* PATCH /users/{user_id} with this body; stamp is what onupdate binds.
UpdateUser(user_id, upd, stamp) ==
    LET req == [user_id |-> user_id, body |-> upd]
    IN
    IF user_id \notin Ids
    THEN /\ last' = Response("update", 404, "User not found", user_id, req)
         /\ UNCHANGED <<users, clock>>
    ELSE
      LET db_user == RowOf(users, user_id)
          new     == Assigned(db_user, upd)
      IN  \* commit: the unit of work emits an UPDATE only for a row
          \* with a net change, and onupdate is part of that UPDATE.
          IF new = db_user
          THEN /\ last' = Response("update", 200, "", user_id, req)
               /\ UNCHANGED <<users, clock>>
          ELSE IF UniqueViolation(user_id, new)
          THEN \* an IntegrityError the handler does not catch
               /\ last' = Response("update", 500, "Internal Server Error", user_id, req)
               /\ UNCHANGED <<users, clock>>
          ELSE /\ users' = Replaced(user_id, [new EXCEPT !.updated_at = stamp])
               /\ last' = Response("update", 200, "", user_id, req)
               /\ UNCHANGED clock

update_user ==
    /\ Idle
    /\ \E stamp \in {BoundNow(clock)}, user_id \in 1..MaxId, upd \in UpdateBodies :
         UpdateUser(user_id, upd, stamp)
    /\ UNCHANGED <<codecVars, raceVars, managerVars>>

\* delete_user without its existence check.
DeleteUser_Unchecked(user_id) ==
    /\ users' = SelectSeq(users, LAMBDA u : u.id # user_id)
    /\ last' = Response("delete", 204, "", user_id, [user_id |-> user_id])
    /\ UNCHANGED clock

\* DELETE /users/{user_id}
DeleteUser(user_id) ==
    LET req == [user_id |-> user_id]
    IN
    IF user_id \notin Ids
    THEN /\ last' = Response("delete", 404, "User not found", user_id, req)
         /\ UNCHANGED <<users, clock>>
    ELSE /\ users' = SelectSeq(users, LAMBDA u : u.id # user_id)
         /\ last' = Response("delete", 204, "", user_id, req)
         /\ UNCHANGED clock

delete_user ==
    /\ Idle
    /\ \E user_id \in 1..MaxId : DeleteUser(user_id)
    /\ UNCHANGED <<codecVars, raceVars, managerVars>>

\* The largest skip and the largest limit of a list request, besides the
\* default limit.
MaxSkip == 3

MaxLimit == 2

DefaultLimit == 100

Skips == -1..MaxSkip

Limits == (-1..MaxLimit) \cup {DefaultLimit}

\* The page without its OFFSET.
Page_NoOffset(tbl, skip, limit) ==
    SubSeq(tbl, 1, IF limit < 0 \/ limit > Len(tbl) THEN Len(tbl) ELSE limit)

\* LIMIT limit OFFSET skip of SQLite over the table in rowid order: a negative
\* OFFSET counts as 0, a negative LIMIT as no limit.
Page(tbl, skip, limit) ==
    LET s == IF skip < 0 THEN 0 ELSE skip
        e == IF limit < 0 \/ s + limit > Len(tbl) THEN Len(tbl) ELSE s + limit
    IN  SubSeq(tbl, s + 1, e)

\* The body of a response for one user (response_model = UserResponse).
UserResponse(u) ==
    [id |-> u.id, email |-> u.email, username |-> u.username,
     full_name |-> u.full_name, is_active |-> u.is_active,
     created_at |-> u.created_at, updated_at |-> u.updated_at]

\* GET /users/?skip=&limit=
ListUsers(skip, limit) ==
    LET req == [skip |-> skip, limit |-> limit]
    IN
    /\ last' = [Response("list", 200, "", 0, req) EXCEPT
                  !.items = [i \in 1..Len(Page(users, skip, limit)) |->
                                UserResponse(Page(users, skip, limit)[i])]]
    /\ UNCHANGED <<users, clock>>

list_users ==
    /\ Idle
    /\ \E skip \in Skips, limit \in Limits : ListUsers(skip, limit)
    /\ UNCHANGED <<codecVars, raceVars, managerVars>>

(***************************************************************************)
(* The Prisma handlers of routers/users_prisma.py, on the same table.      *)
(***************************************************************************)

\* What Prisma stores for now(): the epoch-millisecond integer.
PrismaNow(c) == IntVal(EpochMillis(Now(c)))

\* POST /prisma/users/ with this body
PrismaCreateUser(email, username, full_name, stamp) ==
    LET req == [email |-> email, username |-> username, full_name |-> full_name]
    IN
    IF EmailHeld(email) \/ UsernameHeld(username)
    THEN \* UniqueViolationError
         /\ last' = PrismaResponse("create", 400, "Email or username already registered", 0, req)
         /\ UNCHANGED <<users, clock>>
    ELSE /\ NextId <= MaxId
         /\ users' = Append(users,
               [id |-> NextId, email |-> email, username |-> username,
                full_name |-> full_name,
                hashed_password |-> "hashedpassword123",
                is_active |-> TRUE, is_superuser |-> FALSE,
                created_at |-> stamp, updated_at |-> stamp])
         /\ last' = PrismaResponse("create", 201, "", NextId, req)
         /\ UNCHANGED clock

prisma_create_user ==
    /\ Idle
    /\ \E email \in Emails, username \in Usernames, full_name \in FullNames,
          stamp \in {PrismaNow(clock)} :
         PrismaCreateUser(email, username, full_name, stamp)
    /\ UNCHANGED <<codecVars, raceVars, managerVars>>

\* GET /prisma/users/{user_id}
PrismaGetUser(user_id) ==
    LET req == [user_id |-> user_id]
    IN
    /\ last' = IF user_id \in Ids THEN PrismaResponse("get", 200, "", user_id, req)
               ELSE PrismaResponse("get", 404, "User not found", user_id, req)
    /\ UNCHANGED <<users, clock>>

prisma_get_user ==
    /\ Idle
    /\ \E user_id \in 1..MaxId : PrismaGetUser(user_id)
    /\ UNCHANGED <<codecVars, raceVars, managerVars>>

\* One item of the Prisma list (the minimal fields).
UserListItem(u) == [id |-> u.id, username |-> u.username, created_at |-> u.created_at]

\* GET /prisma/users/?skip=&limit= (find_many is given no negative skip or take)
PrismaListUsers(skip, limit) ==
    LET req == [skip |-> skip, limit |-> limit]
    IN
    /\ last' = [PrismaResponse("list", 200, "", 0, req) EXCEPT
                  !.items = [i \in 1..Len(Page(users, skip, limit)) |->
                                UserListItem(Page(users, skip, limit)[i])]]
    /\ UNCHANGED <<users, clock>>

prisma_list_users ==
    /\ Idle
    /\ \E skip \in Skips \cap Nat, limit \in Limits \cap Nat : PrismaListUsers(skip, limit)
    /\ UNCHANGED <<codecVars, raceVars, managerVars>>

\* update_user of the Prisma router over a table without the unique indexes.
PrismaUpdateUser_NoUniqueIndex(user_id, upd, stamp) ==
    LET req == [user_id |-> user_id, body |-> upd]
    IN
    IF user_id \notin Ids
    THEN /\ last' = PrismaResponse("update", 404, "User not found", user_id, req)
         /\ UNCHANGED <<users, clock>>
    ELSE /\ users' = Replaced(user_id,
                         [Assigned(RowOf(users, user_id), upd) EXCEPT !.updated_at = stamp])
         /\ last' = PrismaResponse("update", 200, "", user_id, req)
         /\ UNCHANGED clock

\* PATCH /prisma/users/{user_id} with this body; stamp is what updatedAt gets.
PrismaUpdateUser(user_id, upd, stamp) ==
    LET req == [user_id |-> user_id, body |-> upd]
    IN
    IF user_id \notin Ids
    THEN /\ last' = PrismaResponse("update", 404, "User not found", user_id, req)
         /\ UNCHANGED <<users, clock>>
    ELSE
      LET new == Assigned(RowOf(users, user_id), upd)
      IN  IF UniqueViolation(user_id, new)
          THEN \* UniqueViolationError
               /\ last' = PrismaResponse("update", 400, "Email or username already taken", user_id, req)
               /\ UNCHANGED <<users, clock>>
          ELSE /\ users' = Replaced(user_id, [new EXCEPT !.updated_at = stamp])
               /\ last' = PrismaResponse("update", 200, "", user_id, req)
               /\ UNCHANGED clock

prisma_update_user ==
    /\ Idle
    /\ \E stamp \in {PrismaNow(clock)}, user_id \in 1..MaxId, upd \in UpdateBodies :
         PrismaUpdateUser(user_id, upd, stamp)
    /\ UNCHANGED <<codecVars, raceVars, managerVars>>

\* delete_user of the Prisma router deleting without its where clause.
PrismaDeleteUser_Many(user_id) ==
    LET req == [user_id |-> user_id]
    IN
    IF user_id \notin Ids
    THEN /\ last' = PrismaResponse("delete", 404, "User not found", user_id, req)
         /\ UNCHANGED <<users, clock>>
    ELSE /\ users' = <<>>
         /\ last' = PrismaResponse("delete", 204, "", user_id, req)
         /\ UNCHANGED clock

\* DELETE /prisma/users/{user_id}
PrismaDeleteUser(user_id) ==
    LET req == [user_id |-> user_id]
    IN
    IF user_id \notin Ids
    THEN /\ last' = PrismaResponse("delete", 404, "User not found", user_id, req)
         /\ UNCHANGED <<users, clock>>
    ELSE /\ users' = SelectSeq(users, LAMBDA u : u.id # user_id)
         /\ last' = PrismaResponse("delete", 204, "", user_id, req)
         /\ UNCHANGED clock

prisma_delete_user ==
    /\ Idle
    /\ \E user_id \in 1..MaxId : PrismaDeleteUser(user_id)
    /\ UNCHANGED <<codecVars, raceVars, managerVars>>

Next ==
    \/ Tick
    \/ Respond
    \/ create_user
    \/ get_user
    \/ list_users
    \/ update_user
    \/ delete_user
    \/ prisma_create_user
    \/ prisma_get_user
    \/ prisma_list_users
    \/ prisma_update_user
    \/ prisma_delete_user

Spec == Init /\ [][Next]_vars

(***************************************************************************)
(* Concurrent POST /users/ of routers/users.py.  Every request runs in its *)
(* own session; the handler yields to the event loop at each await, so     *)
(* the two SELECTs and the commit of one request interleave with those of  *)
(* another.                                                                *)
(***************************************************************************)
MaxInFlight == 2

InFlight == 1..Len(pending)

\* A POST /users/ arrives and its handler is about to run its first SELECT.
Arrive(email, username, full_name) ==
    /\ pending' = Append(pending,
          [email |-> email, username |-> username, full_name |-> full_name,
           at |-> "select_email", status |-> 0, detail |-> "", id |-> 0])
    /\ UNCHANGED <<users, clock, last, codecVars, managerVars>>

post_users ==
    /\ Len(pending) < MaxInFlight
    /\ \E email \in Emails, username \in Usernames, full_name \in FullNames :
          Arrive(email, username, full_name)

\* select(User).where(User.email == user_in.email), then the 400 or go on
SelectEmail(i) ==
    /\ pending[i].at = "select_email"
    /\ pending' = [pending EXCEPT ![i] =
          IF EmailHeld(pending[i].email)
          THEN [@ EXCEPT !.at = "done", !.status = 400,
                         !.detail = "Email already registered"]
          ELSE [@ EXCEPT !.at = "select_username"]]
    /\ UNCHANGED <<users, clock, last, codecVars, managerVars>>

select_email == \E i \in InFlight : SelectEmail(i)

\* select(User).where(User.username == user_in.username), then the 400 or go on
SelectUsername(i) ==
    /\ pending[i].at = "select_username"
    /\ pending' = [pending EXCEPT ![i] =
          IF UsernameHeld(pending[i].username)
          THEN [@ EXCEPT !.at = "done", !.status = 400,
                         !.detail = "Username already taken"]
          ELSE [@ EXCEPT !.at = "commit"]]
    /\ UNCHANGED <<users, clock, last, codecVars, managerVars>>

select_username == \E i \in InFlight : SelectUsername(i)

\* db.add(user); await db.commit(): the INSERT runs against the table as it
\* is now.  The unique indexes of email and username reject a duplicate
\* with IntegrityError, which the handler does not catch: the session is
\* rolled back and the client gets 500.
Commit(i) ==
    /\ pending[i].at = "commit"
    /\ IF EmailHeld(pending[i].email) \/ UsernameHeld(pending[i].username)
       THEN /\ pending' = [pending EXCEPT ![i] =
                 [@ EXCEPT !.at = "done", !.status = 500,
                           !.detail = "Internal Server Error"]]
            /\ UNCHANGED <<users, clock>>
       ELSE /\ NextId <= MaxId
            /\ \E drift \in {0, TickUs} :
                 /\ clock + drift <= MaxTicks * TickUs
                 /\ clock' = clock + drift
                 /\ \E created \in {BoundNow(clock)}, updated \in {BoundNow(clock + drift)} :
                    users' = Append(users,
                       [id |-> NextId, email |-> pending[i].email,
                        username |-> pending[i].username,
                        full_name |-> pending[i].full_name,
                        hashed_password |-> "hashedpassword123",
                        is_active |-> TRUE, is_superuser |-> FALSE,
                        created_at |-> created, updated_at |-> updated])
            /\ pending' = [pending EXCEPT ![i] =
                 [@ EXCEPT !.at = "done", !.status = 201, !.id = NextId]]
    /\ UNCHANGED <<last, codecVars, managerVars>>

commit == \E i \in InFlight : Commit(i)

RaceNext ==
    \/ Tick
    \/ post_users
    \/ select_email
    \/ select_username
    \/ commit

RaceSpec == Init /\ [][RaceNext]_vars

(***************************************************************************)
(* PrismaManager of my_prisma/manager.py.  init() and close() are          *)
(* coroutines: each assigns or tests _client, awaits the client's connect  *)
(* or disconnect, and other tasks run during that await.  get() is a       *)
(* plain method and runs without interruption.                             *)
(***************************************************************************)
MaxClients == 3

ClientIds == 1..Len(clients)

Connected == {c \in ClientIds : clients[c] = "connected"}

\* init() up to its await: cls._client = Prisma(), then connect() starts.
init ==
    /\ Len(clients) < MaxClients
    /\ clients' = Append(clients, "connecting")
    /\ client' = Len(clients) + 1
    /\ UNCHANGED <<closing, got, codecVars, crudVars, raceVars>>

\* The connect of client c has completed: init() returns.
ConnectReturns(c) ==
    /\ clients[c] = "connecting"
    /\ clients' = [clients EXCEPT ![c] = "connected"]
    /\ UNCHANGED <<client, closing, got>>

connect_returns ==
    /\ \E c \in ClientIds : ConnectReturns(c)
    /\ UNCHANGED <<codecVars, crudVars, raceVars>>

\* The connect of client c has raised: init() raises, _client stays as it is.
ConnectRaises(c) ==
    /\ clients[c] = "connecting"
    /\ clients' = [clients EXCEPT ![c] = "failed"]
    /\ UNCHANGED <<client, closing, got>>

connect_raises ==
    /\ \E c \in ClientIds : ConnectRaises(c)
    /\ UNCHANGED <<codecVars, crudVars, raceVars>>

\* close() up to its await; with _client None it returns at once.
close ==
    /\ IF client = NoClient
       THEN UNCHANGED closing
       ELSE /\ client \notin closing
            /\ closing' = closing \cup {client}
    /\ UNCHANGED <<client, clients, got, codecVars, crudVars, raceVars>>

\* The disconnect of client c has returned: close() sets _client to None,
\* whichever client it refers to by now.  Only a connected client has a
\* connection to give up.
DisconnectReturns(c) ==
    /\ closing' = closing \ {c}
    /\ clients' = [clients EXCEPT ![c] =
                      IF @ = "connected" THEN "disconnected" ELSE @]
    /\ client' = NoClient
    /\ UNCHANGED got

disconnect_returns ==
    /\ \E c \in closing : DisconnectReturns(c)
    /\ UNCHANGED <<codecVars, crudVars, raceVars>>

\* get(): RuntimeError when _client is None, else the client it refers to.
get ==
    /\ got' = IF client = NoClient
              THEN [outcome |-> "RuntimeError", client |-> NoClient,
                    connected |-> FALSE]
              ELSE [outcome |-> "client", client |-> client,
                    connected |-> client \in Connected]
    /\ UNCHANGED <<client, clients, closing, codecVars, crudVars, raceVars>>

ManagerNext ==
    \/ init
    \/ connect_returns
    \/ connect_raises
    \/ close
    \/ disconnect_returns
    \/ get

ManagerSpec == Init /\ [][ManagerNext]_vars

(***************************************************************************)
(* The codec's contract.                                                   *)
(***************************************************************************)
Decoded == pc \in {"loaded", "reloaded"}

\* The instant exactly n milliseconds after 1970-01-01T00:00:00 UTC.
InstantOfMillis(n) ==
    LET ms == DivRem(n.mag, 1000)
        up == n.neg /\ ms.r # 0
        sd == DivRem(IF up THEN AddSmall(ms.q, 1) ELSE ms.q, SecondsPerDay)
        q  == BitsNat(sd.q)
    IN  DateTime(IF ~n.neg \/ (sd.q = <<>> /\ sd.r = 0) THEN q
                 ELSE IF sd.r = 0 THEN -q ELSE -(q + 1),
                 IF ~n.neg \/ sd.r = 0 THEN sd.r ELSE SecondsPerDay - sd.r,
                 (IF up THEN 1000 - ms.r ELSE ms.r) * 1000, TRUE, 0)

\* n milliseconds after the epoch is an instant of datetime's range
\* (0001-01-01 to 9999-12-31).
InDateTimeRange(n) ==
    /\ Len(DivRem(DivRem(n.mag, 1000).q, SecondsPerDay).q) <= 24
    /\ InstantOfMillis(n).days \in MinDays..MaxDays

\* C1: decoding what the SQLAlchemy codec encoded for an instant t at
\* millisecond precision returns t, on SQLite and on any other backend.
C1_RoundTrip ==
    (pc = "loaded" /\ writer = "sqlalchemy" /\ reader = "sqlalchemy" /\ moment # None)
        => DtEq(result, moment)

\* C2: every raw representation a writer leaves for a moment t (the
\* epoch-millisecond integer, the text forms, a native datetime) decodes, by
\* either codec, to the Canonical Instant t.
C2_SameInstant ==
    (pc = "loaded" /\ moment # None
        /\ writer \in {"sqlalchemy", "sqlmodel", "current_timestamp", "prisma", "iso"})
        => DtEq(result, moment)

\* C3: a write through either codec persists the instant's epoch-millisecond
\* integer on SQLite and the native temporal value on any other backend.
C3_EncodePolicy ==
    (pc # "new" /\ writer \in Orms /\ moment # None)
        => IF dialect = "sqlite" THEN raw = IntVal(EpochMillis(moment))
           ELSE raw = moment

\* The two recognised patterns: YYYY-MM-DD HH:MM:SS, and T-separated
\* ISO-8601 (with an optional fraction and an optional Z or offset).
Recognised(s) ==
    /\ Len(s) >= 19
    /\ s[11] \in {" ", "T"}
    /\ (s[11] = " " => Len(s) = 19)
    /\ \A i \in 1..19 :
         IF i \in {5, 8} THEN s[i] = "-"
         ELSE IF i = 11 THEN TRUE
         ELSE IF i \in {14, 17} THEN s[i] = ":"
         ELSE IsDigit(s[i])

\* C4: decoding a string that matches neither recognised pattern raises.
C4_MalformedRaises ==
    (pc = "loaded" /\ IsStr(raw) /\ ~Recognised(raw.s)) => IsRaise(result)

\* The two spelling normalisations of the Decode Dispatcher, both applied.
Normalise(s) ==
    LET a == IF Contains(s, "T") THEN s ELSE Replace(s, " ", <<"T">>)
    IN  IF a # <<>> /\ a[Len(a)] = "Z"
        THEN SubSeq(a, 1, Len(a) - 1) \o <<"+", "0", "0", ":", "0", "0">>
        ELSE a

\* C7: a timestamp string decodes to what its normalised spelling (space
\* replaced by T, trailing Z replaced by +00:00) decodes to.
C7_Normalisation ==
    (pc = "loaded" /\ IsStr(raw) /\ writer \in {"iso", "current_timestamp", "sqlmodel"})
        => result = process_result_value(StrVal(Normalise(raw.s)), py311)

\* C8: an integer n that is an instant of datetime's range decodes to the
\* instant exactly n milliseconds after the epoch, in UTC.
C8_EpochMillis ==
    (pc = "loaded" /\ IsInt(raw) /\ InDateTimeRange(raw))
        => result = InstantOfMillis(raw)

\* C9: null goes through the codec unchanged: encode(None) is None on every
\* backend and by either codec, and decode(None) is None.
C9_NullPropagation ==
    /\ (pc # "new" /\ writer \in Orms /\ moment = None) => (bound = None /\ raw = None)
    /\ (Decoded /\ raw = None) => result = None

C9_Witness ==
    /\ pc = "loaded" /\ writer = "sqlalchemy" /\ dialect = "sqlite"
    /\ moment = None /\ raw = None /\ result = None

\* C10: a datetime handed to decode comes back unchanged, so decoding a
\* decoded value again changes nothing.
C10_Idempotent ==
    /\ (pc = "reloaded") => result = prev
    /\ (pc = "loaded" /\ IsDateTime(raw)) => result = raw

C10_Witness ==
    /\ pc = "reloaded" /\ IsStr(raw) /\ IsDateTime(prev) /\ ~prev.aware
    /\ result = prev

(***************************************************************************)
(* The timestamps of a row.                                                *)
(***************************************************************************)

\* C5: every update of a user row that succeeds sets updated_at to the
\* current instant at the time of the update, whatever the request contains
\* (no field at all, or only values equal to the stored ones).
C5_UpdateRefreshes ==
    [][(update_user /\ last'.status = 200)
          => RowOf(users', last'.id).updated_at = BoundNow(clock)]_vars

\* C6: a row inserted without explicit timestamps has a created_at and an
\* updated_at that are not null and are equal to each other.
C6_InsertTimestamps ==
    (last.op = "create" /\ last.status = 201)
        => LET u == RowOf(users, last.id)
           IN  /\ u.created_at # None
               /\ u.updated_at # None
               /\ u.created_at = u.updated_at

(***************************************************************************)
(* The column type.                                                        *)
(***************************************************************************)

\* The physical type of created_at / updated_at under the model that wrote.
ColumnType(orm, d) ==
    IF orm = "sqlalchemy" THEN load_dialect_impl(d) ELSE sqlmodel_load_dialect_impl(d)

\* C11: the physical column type of created_at / updated_at is a function of
\* the backend only, identically for both models: a plain integer column on
\* SQLite, a native temporal column on any other backend.
C11_ColumnType ==
    (pc # "new" /\ writer \in Orms)
        => ColumnType(writer, dialect) = IF dialect = "sqlite" THEN "Integer" ELSE "DateTime"

(***************************************************************************)
(* The handlers' contract.                                                 *)
(***************************************************************************)

\* The step is the handling of a request by handler op of router via.
Handled(via, op) == Idle /\ last'.via = via /\ last'.op = op

\* C12: a create whose email is held by a stored user is answered 400
\* "Email already registered", also when the username is held too; otherwise
\* a create whose username is held is answered 400 "Username already taken".
\* Either way the user table is unchanged.
C12_DuplicateCreate ==
    [][Handled("sqlalchemy", "create") =>
          IF EmailHeld(last'.req.email)
          THEN /\ last'.status = 400
               /\ last'.detail = "Email already registered"
               /\ users' = users
          ELSE UsernameHeld(last'.req.username) =>
               /\ last'.status = 400
               /\ last'.detail = "Username already taken"
               /\ users' = users]_vars

C12_Witness ==
    /\ last.via = "sqlalchemy" /\ last.op = "create"
    /\ EmailHeld(last.req.email) /\ UsernameHeld(last.req.username)
    /\ last.status = 400 /\ last.detail = "Email already registered"
    /\ Len(users) = 1

\* The update of the request would give its user an email or a username that
\* another stored user holds.
WouldCollide(req) ==
    /\ req.user_id \in Ids
    /\ UniqueViolation(req.user_id, Assigned(RowOf(users, req.user_id), req.body))

\* C13: in the Prisma handlers a create or an update that would give two
\* users the same email or the same username is answered 400 ("Email or
\* username already registered" for create, "Email or username already
\* taken" for update) and leaves every stored row unchanged.
C13_PrismaDuplicate ==
    [][/\ (Handled("prisma", "create")
             /\ (EmailHeld(last'.req.email) \/ UsernameHeld(last'.req.username)))
          => /\ last'.status = 400
             /\ last'.detail = "Email or username already registered"
             /\ users' = users
       /\ (Handled("prisma", "update") /\ WouldCollide(last'.req))
          => /\ last'.status = 400
             /\ last'.detail = "Email or username already taken"
             /\ users' = users]_vars

C13_Witness ==
    /\ last.via = "prisma" /\ last.op = "update"
    /\ WouldCollide(last.req)
    /\ last.status = 400 /\ last.detail = "Email or username already taken"

Routers == {"sqlalchemy", "prisma"}

\* C14: get, update and delete of an id that is not stored each answer 404
\* "User not found" and leave the user table unchanged, in both routers.
C14_NotFound ==
    [][\A via \in Routers, op \in {"get", "update", "delete"} :
          (Handled(via, op) /\ last'.req.user_id \notin Ids)
             => /\ last'.status = 404
                /\ last'.detail = "User not found"
                /\ users' = users]_vars

C14_Witness ==
    /\ last.via = "sqlalchemy" /\ last.op = "delete"
    /\ last.req.user_id \notin Ids
    /\ last.status = 404 /\ last.detail = "User not found"
    /\ users # <<>>

\* C15: deleting a stored user answers 204 and removes exactly that user's
\* row, every other row unchanged; a get answers 404 exactly for the ids that
\* are not stored, and an id that is not stored becomes stored again only by
\* a create that hands out that id.
C15_Delete ==
    [][/\ \A via \in Routers :
            (Handled(via, "delete") /\ last'.req.user_id \in Ids)
               => /\ last'.status = 204
                  /\ users' = SelectSeq(users, LAMBDA u : u.id # last'.req.user_id)
       /\ \A via \in Routers :
            Handled(via, "get") => (last'.status = 404 <=> last'.req.user_id \notin Ids)
       /\ \A id \in 1..MaxId :
            (id \notin Ids /\ id \in {u.id : u \in {users'[i] : i \in 1..Len(users')}})
               => (last'.op = "create" /\ last'.status = 201 /\ last'.id = id)]_vars

C15_Witness ==
    /\ last.via = "prisma" /\ last.op = "delete"
    /\ last.status = 204
    /\ last.req.user_id \notin Ids
    /\ Len(users) = 1

\* C16: a successful update changes only the fields present in the request
\* among email, username, full_name and is_active; a field not present keeps
\* its stored value; id, hashed_password, is_superuser and created_at are
\* not changed; the rows of the other users are unchanged.
C16_UpdateFrame ==
    [][\A via \in Routers :
          (Handled(via, "update") /\ last'.status = 200) =>
             LET id   == last'.req.user_id
                 body == last'.req.body
                 old  == RowOf(users, id)
                 new  == RowOf(users', id)
             IN  /\ \A f \in UpdateFields :
                       new[f] = IF f \in body.set THEN body[f] ELSE old[f]
                 /\ \A f \in {"id", "hashed_password", "is_superuser", "created_at"} :
                       new[f] = old[f]
                 /\ Len(users') = Len(users)
                 /\ \A i \in 1..Len(users) :
                       users[i].id # id => users'[i] = users[i]]_vars

C16_Witness ==
    /\ last.via = "sqlalchemy" /\ last.op = "update" /\ last.status = 200
    /\ last.req.body.set = {"is_active"}
    /\ ~last.req.body.is_active
    /\ Len(users) = 2
    /\ ~RowOf(users, last.req.user_id).is_active
    /\ RowOf(users, last.req.user_id).full_name = "Al"

Min2(a, b) == IF a < b THEN a ELSE b

Max2(a, b) == IF a < b THEN b ELSE a

\* What the list contract says of a list step: min(l, max(0, n - s)) items,
\* each a distinct stored user, every stored user once under the defaults,
\* and no stored row changed.
ListContract ==
    LET s == last'.req.skip
        l == last'.req.limit
        n == Len(users)
        items == last'.items
    IN  /\ last'.status = 200
        /\ Len(items) = Min2(l, Max2(0, n - s))
        /\ \A i \in 1..Len(items) : items[i].id \in Ids
        /\ \A i, j \in 1..Len(items) : i # j => items[i].id # items[j].id
        /\ (s = 0 /\ l = DefaultLimit) => {items[i].id : i \in 1..Len(items)} = Ids
        /\ users' = users

\* C17 as stated, for every skip and limit.
C17_ListAnyPage ==
    [][\A via \in Routers : Handled(via, "list") => ListContract]_vars

\* C17: listing with skip = s >= 0 and limit = l >= 0 over n stored users
\* returns exactly min(l, max(0, n - s)) items, each a distinct stored user,
\* every stored user once with the defaults; listing changes no stored row.
C17_ListPage ==
    [][\A via \in Routers :
          (Handled(via, "list") /\ last'.req.skip >= 0 /\ last'.req.limit >= 0)
             => ListContract]_vars

C17_Witness ==
    /\ last.via = "sqlalchemy" /\ last.op = "list"
    /\ Len(users) = 2
    /\ last.req.skip = 1 /\ last.req.limit = DefaultLimit
    /\ Len(last.items) = 1
    /\ last.items[1].id = users[2].id

\* C18: the Prisma list returns the stored users in the order of their
\* creation, and the i-th item carries the email of the i-th created user.
C18_PrismaListOrder ==
    [][(Handled("prisma", "list")
          /\ last'.req.skip = 0 /\ last'.req.limit = DefaultLimit)
         => /\ Len(last'.items) = Len(users)
            /\ \A i \in 1..Len(last'.items) :
                  /\ last'.items[i].id = users[i].id
                  /\ "email" \in DOMAIN last'.items[i]
                  /\ last'.items[i].email = users[i].email]_vars

\* C19: of two concurrent POST /users/ with the same email or the same
\* username, whatever the interleaving of their checks and commits, one
\* is answered 201 and the other 400; no response is other than 201 or 400
\* and the two never leave two rows.
C19_ConcurrentCreate ==
    /\ \A i \in InFlight :
          pending[i].at = "done" => pending[i].status \in {201, 400}
    /\ \A i, j \in InFlight :
          (/\ i # j
           /\ pending[i].at = "done" /\ pending[j].at = "done"
           /\ \/ pending[i].email = pending[j].email
              \/ pending[i].username = pending[j].username)
             => /\ {pending[i].status, pending[j].status} = {201, 400}
                /\ Len(users) = 1

\* C20: whatever requests the two routers have handled, no two stored users
\* share an email and no two share a username, also after an update that
\* tried to set a value another user holds.
C20_UniqueUsers ==
    \A i, j \in 1..Len(users) :
        i # j => /\ users[i].email # users[j].email
                 /\ users[i].username # users[j].username
                 /\ users[i].id # users[j].id

\* An update has just tried to give a user the email or username of another.
C20_Witness ==
    /\ Len(users) = 2
    /\ last.op = "update"
    /\ last.status \in {400, 500}
    /\ \E u \in Rows :
          /\ u.id # last.req.user_id
          /\ \/ "email" \in last.req.body.set /\ last.req.body.email = u.email
             \/ "username" \in last.req.body.set /\ last.req.body.username = u.username

\* C21: under any interleaving of init, close and get, get returns a client
\* only when that client is connected (else it raises RuntimeError), and at
\* most one connected client exists at a time.
C21_GetConnected ==
    /\ got.outcome = "client" => got.connected
    /\ got.outcome = "RuntimeError" => got.client = NoClient
    /\ Cardinality(Connected) <= 1

\* Whole seconds from instant b to instant a.
SecondsApart(a, b) ==
    (ToUTC(a).days - ToUTC(b).days) * SecondsPerDay + (ToUTC(a).sod - ToUTC(b).sod)

\* C22: for every instant t at microsecond precision, before the epoch or
\* after, decoding the SQLite encoding of t gives t rounded down to whole
\* milliseconds: an instant not later than t and less than one millisecond
\* earlier than t.
C22_EncodeFloor ==
    (pc = "loaded" /\ writer = "sqlalchemy" /\ reader = "sqlalchemy"
        /\ dialect = "sqlite")
        => /\ IsDateTime(result)
           /\ result.aware
           /\ result.us % 1000 = 0
           /\ SecondsApart(moment, result) \in {0, 1}
           /\ LET behind == SecondsApart(moment, result) * 1000000
                               + moment.us - result.us
              IN  0 <= behind /\ behind < 1000

====
